---- MODULE Spec2Model ----
(***************************************************************************)
(* Website content analyzer: src/website_analyzer.py (free functions,      *)
(* variant 1) and src/website_analyzer2.py (class WebsiteAnalyzer,         *)
(* variant 2).                                                             *)
(*                                                                         *)
(* A Python str is a sequence of tokens.  A token is a lexical unit of the *)
(* texts the program handles: a URL delimiter (":", "/", "?", "#", "@"),   *)
(* a blank (" "), or a word ("https", "example.com", "logo.png", ...).     *)
(* str operations (startswith, endswith, strip, lower, find, split, +)     *)
(* work on these sequences the way the Python ones work on characters.     *)
(* Python's None is the value None below, which is no str of the model.    *)
(***************************************************************************)
EXTENDS Integers, Sequences, FiniteSets, TLC

\* --------------------------------------------------------------- bounds
\* Longest document, in elements, that the server serves.
MaxElems == 2

\* ------------------------------------------------------------ str model
None == <<"<None>">>

EmptyStr == <<>>

\* bool(v) of an optional str: None and '' are falsy.
Truthy(v) == v # None /\ v # EmptyStr

Blank == " "

\* Tokens that hold a character outside urllib.parse.scheme_chars.
NonSchemeToks == {":", "/", "?", "#", "@", " ", "og:"}

\* Tokens whose first character is no ASCII letter.
NonAlphaStartToks == NonSchemeToks \cup {".", "..", "8080", "443"}

\* str.lower() of one token.
LowerTok(t) ==
  CASE t = "HTTPS" -> "https"
    [] t = "HTTP" -> "http"
    [] t = "Example.com" -> "example.com"
    [] t = "QUIT" -> "quit"
    [] t = "Quit" -> "quit"
    [] OTHER -> t

\* str.upper() of one token (the heading tags of the report).
UpperTok(t) ==
  CASE t = "h1" -> "H1" [] t = "h2" -> "H2" [] t = "h3" -> "H3"
    [] t = "h4" -> "H4" [] t = "h5" -> "H5" [] t = "h6" -> "H6"
    [] OTHER -> t

Lower(s) == [i \in 1..Len(s) |-> LowerTok(s[i])]

StartsWith(s, p) == Len(s) >= Len(p) /\ SubSeq(s, 1, Len(p)) = p

EndsWith(s, p) == Len(s) >= Len(p) /\ SubSeq(s, Len(s) - Len(p) + 1, Len(s)) = p

\* s[i:] with i a 1-based position.
From(s, i) == SubSeq(s, i, Len(s))

\* 1-based position of the first token of s, at or after position start,
\* that is in toks; 0 when there is none (str.find gives -1).
FindAny(s, toks, start) ==
  LET hits == {i \in start..Len(s) : s[i] \in toks}
  IN IF hits = {} THEN 0 ELSE CHOOSE i \in hits : \A j \in hits : i <= j

Find(s, t) == FindAny(s, {t}, 1)

\* str.strip(): leading and trailing blanks removed.
Strip(s) ==
  LET keep == {i \in 1..Len(s) : s[i] # Blank}
  IN IF keep = {} THEN EmptyStr
     ELSE SubSeq(s, CHOOSE i \in keep : \A j \in keep : i <= j,
                    CHOOSE i \in keep : \A j \in keep : i >= j)

\* str.lstrip() of blanks.
LStrip(s) ==
  LET keep == {i \in 1..Len(s) : s[i] # Blank}
  IN IF keep = {} THEN EmptyStr
     ELSE From(s, CHOOSE i \in keep : \A j \in keep : i <= j)

\* str.split(sep) for a one-token separator: the pieces between separators.
RECURSIVE SplitOn(_, _)
SplitOn(s, sep) ==
  LET i == Find(s, sep)
  IN IF i = 0 THEN <<s>>
     ELSE <<SubSeq(s, 1, i - 1)>> \o SplitOn(From(s, i + 1), sep)

\* sep.join(parts)
RECURSIVE Join(_, _)
Join(parts, sep) ==
  IF Len(parts) = 0 THEN EmptyStr
  ELSE IF Len(parts) = 1 THEN parts[1]
  ELSE parts[1] \o <<sep>> \o Join(Tail(parts), sep)

\* str.split() with no argument: the maximal runs of non-blank tokens.
RECURSIVE Words(_)
Words(s) ==
  LET t == LStrip(s)
      i == Find(t, Blank)
  IN IF t = EmptyStr THEN <<>>
     ELSE IF i = 0 THEN <<t>>
     ELSE <<SubSeq(t, 1, i - 1)>> \o Words(From(t, i + 1))

\* str.replace(old, new) for a one-token old.
RECURSIVE Replace(_, _, _)
Replace(s, old, new) ==
  IF s = EmptyStr THEN EmptyStr
  ELSE (IF Head(s) = old THEN new ELSE <<Head(s)>>) \o Replace(Tail(s), old, new)

\* ---------------------------------------------------- urllib.parse model
Http == <<"http">>

Https == <<"https">>

SchemeSep == <<":">>

DoubleSlash == <<"/", "/">>

HttpPrefix == Http \o SchemeSep \o DoubleSlash

HttpsPrefix == Https \o SchemeSep \o DoubleSlash

\* urllib.parse.uses_relative and uses_netloc, cut to the schemes of the model.
uses_relative == {EmptyStr, <<"ftp">>, Http, Https}

uses_netloc == {EmptyStr, <<"ftp">>, Http, Https}

\* s cut at its first tok: the part before it and the part after it (the
\* whole of s and '' when s holds no tok).
CutAt(s, k) ==
  IF k = 0 THEN [head |-> s, tail |-> EmptyStr]
  ELSE [head |-> SubSeq(s, 1, k - 1), tail |-> From(s, k + 1)]

SplitAt(s, tok) == CutAt(s, Find(s, tok))

\* urlsplit: url[:i] is a scheme, for i the position of the first ":".
HasScheme(u0, i) ==
  /\ i > 1
  /\ u0[1] \notin NonAlphaStartToks
  /\ \A k \in 1..(i - 1) : u0[k] \notin NonSchemeToks

SchemeAt(u0, i, scheme) ==
  IF HasScheme(u0, i)
  THEN [scheme |-> Lower(SubSeq(u0, 1, i - 1)), rest |-> From(u0, i + 1)]
  ELSE [scheme |-> scheme, rest |-> u0]

SplitScheme(u0, scheme) == SchemeAt(u0, Find(u0, ":"), scheme)

\* _splitnetloc(url, 2): the netloc ends before the first "/", "?" or "#".
NetlocAt(u1, d) ==
  IF d = 0 THEN [netloc |-> From(u1, 3), rest |-> EmptyStr]
  ELSE [netloc |-> SubSeq(u1, 3, d - 1), rest |-> From(u1, d)]

SplitNetloc(u1) ==
  IF StartsWith(u1, DoubleSlash) THEN NetlocAt(u1, FindAny(u1, {"/", "?", "#"}, 3))
  ELSE [netloc |-> EmptyStr, rest |-> u1]

UrlParts(sch, nl, fr, qr) ==
  [scheme |-> sch.scheme, netloc |-> nl.netloc, path |-> qr.head,
   query |-> qr.tail, fragment |-> fr.tail]

SplitQuery(sch, nl, fr) == UrlParts(sch, nl, fr, SplitAt(fr.head, "?"))

SplitFragment(sch, nl) == SplitQuery(sch, nl, SplitAt(nl.rest, "#"))

SplitAfterScheme(sch) == SplitFragment(sch, SplitNetloc(sch.rest))

\* urlsplit(url, scheme): scheme, netloc, path, query, fragment.
urlsplit(url, scheme) == SplitAfterScheme(SplitScheme(LStrip(url), scheme))

\* urlparse(url): the model's tokens hold no ";", so params is always ''.
urlparse(url) == urlsplit(url, EmptyStr)

WithNetloc(scheme, netloc, path) ==
  IF netloc # EmptyStr
     \/ (scheme # EmptyStr /\ scheme \in uses_netloc /\ ~StartsWith(path, DoubleSlash))
  THEN DoubleSlash \o netloc
       \o (IF path # EmptyStr /\ path[1] # "/" THEN <<"/">> ELSE EmptyStr) \o path
  ELSE path

WithScheme(scheme, url) == IF scheme # EmptyStr THEN scheme \o SchemeSep \o url ELSE url

WithQuery(url, query) == IF query # EmptyStr THEN url \o <<"?">> \o query ELSE url

WithFragment(url, fragment) ==
  IF fragment # EmptyStr THEN url \o <<"#">> \o fragment ELSE url

\* urlunsplit((scheme, netloc, url, query, fragment))
urlunsplit(p) ==
  WithFragment(WithQuery(WithScheme(p.scheme, WithNetloc(p.scheme, p.netloc, p.path)),
                         p.query),
               p.fragment)

\* The loop of urljoin over the path segments: ".." pops, "." is skipped.
RECURSIVE ResolveSegments(_, _)
ResolveSegments(segments, resolved) ==
  IF Len(segments) = 0 THEN resolved
  ELSE IF Head(segments) = <<"..">>
  THEN ResolveSegments(Tail(segments),
         IF Len(resolved) = 0 THEN resolved
         ELSE SubSeq(resolved, 1, Len(resolved) - 1))
  ELSE IF Head(segments) = <<".">>
  THEN ResolveSegments(Tail(segments), resolved)
  ELSE ResolveSegments(Tail(segments), Append(resolved, Head(segments)))

\* segments[1:-1] = filter(None, segments[1:-1])
FilterMiddle(segments) ==
  IF Len(segments) <= 2 THEN segments
  ELSE <<segments[1]>>
       \o SelectSeq(SubSeq(segments, 2, Len(segments) - 1), LAMBDA x : x # EmptyStr)
       \o <<segments[Len(segments)]>>

\* base_parts: the base path's segments without a last one that is no directory.
BaseParts(bp) == IF bp[Len(bp)] # EmptyStr THEN SubSeq(bp, 1, Len(bp) - 1) ELSE bp

PathSegments(bpath, path) ==
  IF path[1] = "/" THEN SplitOn(path, "/")
  ELSE FilterMiddle(BaseParts(SplitOn(bpath, "/")) \o SplitOn(path, "/"))

\* resolved_path, with the trailing '' a last segment "." or ".." leaves.
ResolvedSegments(segments) ==
  IF segments[Len(segments)] \in {<<".">>, <<"..">>}
  THEN Append(ResolveSegments(segments, <<>>), EmptyStr)
  ELSE ResolveSegments(segments, <<>>)

\* '/'.join(resolved_path) or '/'
PathOrRoot(joined) == IF joined = EmptyStr THEN <<"/">> ELSE joined

ResolvedPath(bpath, path) ==
  PathOrRoot(Join(ResolvedSegments(PathSegments(bpath, path)), "/"))

\* urljoin once base and url are parsed.
JoinParsed(b, url, u) ==
  IF u.scheme # b.scheme \/ u.scheme \notin uses_relative THEN url
  ELSE IF u.scheme \in uses_netloc /\ u.netloc # EmptyStr THEN urlunsplit(u)
  ELSE IF u.path = EmptyStr
  THEN urlunsplit([scheme |-> u.scheme,
                   netloc |-> IF u.scheme \in uses_netloc THEN b.netloc ELSE u.netloc,
                   path |-> b.path,
                   query |-> IF u.query = EmptyStr THEN b.query ELSE u.query,
                   fragment |-> u.fragment])
  ELSE urlunsplit([scheme |-> u.scheme,
                   netloc |-> IF u.scheme \in uses_netloc THEN b.netloc ELSE u.netloc,
                   path |-> ResolvedPath(b.path, u.path),
                   query |-> u.query,
                   fragment |-> u.fragment])

JoinToBase(b, url) == JoinParsed(b, url, urlsplit(url, b.scheme))

\* urllib.parse.urljoin(base, url)
urljoin(base, url) ==
  IF base = EmptyStr THEN url
  ELSE IF url = EmptyStr THEN base
  ELSE JoinToBase(urlsplit(base, EmptyStr), url)

\* ------------------------------------------------- parsed document model
(***************************************************************************)
(* A parsed document (the BeautifulSoup object) is the sequence of its     *)
(* top-level elements in document order.  An element has a tag, its        *)
(* attributes (None for an attribute the tag does not carry), the text     *)
(* nodes below it in document order, and its child elements (the model     *)
(* nests one level: <body> holds the page's elements).                     *)
(***************************************************************************)
AttrNames == {"src", "alt", "width", "height", "href", "name", "property",
              "content", "rel"}

\* The attribute map of a tag that carries exactly the attributes of given.
Attrs(given) == [a \in AttrNames |-> IF a \in DOMAIN given THEN given[a] ELSE None]

NoAttrs == [a \in AttrNames |-> None]

El(tag, attrs, texts, kids) ==
  [tag |-> tag, attrs |-> attrs, texts |-> texts, kids |-> kids]

\* Every element of the tree in document order.
RECURSIVE Descendants(_)
Descendants(elems) ==
  IF Len(elems) = 0 THEN <<>>
  ELSE <<Head(elems)>> \o Head(elems).kids \o Descendants(Tail(elems))

\* soup.find_all(tag)
find_all(elems, tag) == SelectSeq(Descendants(elems), LAMBDA e : e.tag = tag)

\* soup.find(tag) is not None
has_tag(elems, tag) == Len(find_all(elems, tag)) > 0

\* soup.find(tag), for a document that has one.
find(elems, tag) == find_all(elems, tag)[1]

\* tag.get(attr) / tag.get(attr, default)
Get(e, attr) == e.attrs[attr]

GetDefault(e, attr, default) == IF e.attrs[attr] = None THEN default ELSE e.attrs[attr]

\* Every text node below an element, in document order.
RECURSIVE KidStrings(_)
KidStrings(kids) ==
  IF Len(kids) = 0 THEN <<>> ELSE Head(kids).texts \o KidStrings(Tail(kids))

AllStrings(e) == e.texts \o KidStrings(e.kids)

\* The text nodes stripped, the empty ones dropped (bs4 _all_strings(strip=True)).
StrippedStrings(e) ==
  LET all == AllStrings(e)
  IN SelectSeq([i \in 1..Len(all) |-> Strip(all[i])], LAMBDA x : x # EmptyStr)

RECURSIVE Concat(_)
Concat(parts) == IF Len(parts) = 0 THEN EmptyStr ELSE Head(parts) \o Concat(Tail(parts))

\* tag.get_text(strip=True)
get_text_strip(e) == Concat(StrippedStrings(e))

\* tag.get_text(separator=' ', strip=True)
get_text_sep(e) == Join(StrippedStrings(e), Blank)

\* ----------------------------------------------------------- extractors
HeadingOrder == <<"h1", "h2", "h3", "h4", "h5", "h6">>

HeadingTags == {HeadingOrder[i] : i \in 1..Len(HeadingOrder)}

\* extract_headings as it would be without the test "if text".
HeadingTextsUnfiltered(soup, tag) ==
  LET found == find_all(soup, tag)
  IN [i \in 1..Len(found) |-> get_text_strip(found[i])]

\* The texts extract_headings keeps of the elements of one heading tag.
HeadingTexts(soup, tag) ==
  LET found == find_all(soup, tag)
  IN SelectSeq([i \in 1..Len(found) |-> get_text_strip(found[i])],
               LAMBDA text : text # EmptyStr)

\* extract_headings(soup), the same in both variants.
extract_headings(soup) == [tag \in HeadingTags |-> HeadingTexts(soup, tag)]

\* src.startswith(('http://', 'https://', '//'))
IsAbsoluteSrc(src) ==
  StartsWith(src, HttpPrefix) \/ StartsWith(src, HttpsPrefix) \/ StartsWith(src, DoubleSlash)

\* The src of an image record, variant 1: string concatenation when the base
\* URL ends with "/", urljoin otherwise.
ResolveSrc1(src, base_url) ==
  IF Truthy(src) /\ ~IsAbsoluteSrc(src)
  THEN IF EndsWith(base_url, <<"/">>) THEN base_url \o src ELSE urljoin(base_url, src)
  ELSE src

\* Variant 2 as it would be without the test for an absolute src.
ResolveSrc2JoinsAll(src, base_url) ==
  IF Truthy(src) THEN urljoin(base_url, src) ELSE src

\* The src of an image record, variant 2: urljoin always.
ResolveSrc2(src, base_url) ==
  IF Truthy(src) /\ ~IsAbsoluteSrc(src) THEN urljoin(base_url, src) ELSE src

ResolveSrc(impl, src, base_url) ==
  IF impl = 1 THEN ResolveSrc1(src, base_url) ELSE ResolveSrc2(src, base_url)

ImageRecord(impl, img, base_url) ==
  [src |-> ResolveSrc(impl, Get(img, "src"), base_url),
   alt |-> GetDefault(img, "alt", EmptyStr),
   width |-> Get(img, "width"),
   height |-> Get(img, "height")]

\* extract_images_info(soup, base_url): (images_info, len(image_tags))
extract_images_info(impl, soup, base_url) ==
  LET image_tags == find_all(soup, "img")
  IN [image_details |-> [i \in 1..Len(image_tags) |->
                           ImageRecord(impl, image_tags[i], base_url)],
      total_images |-> Len(image_tags)]

\* soup.find_all('a', href=True)
LinkTags(soup) == SelectSeq(find_all(soup, "a"), LAMBDA a : Get(a, "href") # None)

\* link_data as it would be with the href as written, not joined to the base.
LinkDataUnresolved(a_tag, base_url) ==
  [href |-> Strip(Get(a_tag, "href")), text |-> get_text_strip(a_tag)]

\* The record of one <a href>: href stripped and joined to the base URL.
LinkData(a_tag, base_url) ==
  [href |-> urljoin(base_url, Strip(Get(a_tag, "href"))),
   text |-> get_text_strip(a_tag)]

\* The comparison as it would be if the scheme were compared with the netloc.
IsInternalSameOrigin(full_href, base_url) ==
  /\ urlparse(full_href).scheme = urlparse(base_url).scheme
  /\ urlparse(full_href).netloc = urlparse(base_url).netloc

\* parsed_full_href.netloc == parsed_base.netloc
IsInternal(full_href, base_url) == urlparse(full_href).netloc = urlparse(base_url).netloc

\* The loop of extract_links_info over link_tags.
RECURSIVE LinksLoop(_, _, _)
LinksLoop(link_tags, base_url, acc) ==
  IF Len(link_tags) = 0 THEN acc
  ELSE LET link_data == LinkData(Head(link_tags), base_url)
       IN LinksLoop(Tail(link_tags), base_url,
            IF IsInternal(link_data.href, base_url)
            THEN [acc EXCEPT !.internal_links = Append(@, link_data),
                             !.internal_count = @ + 1]
            ELSE [acc EXCEPT !.external_links = Append(@, link_data),
                             !.external_count = @ + 1])

\* extract_links_info(soup, base_url), the same in both variants.
extract_links_info(soup, base_url) ==
  LET link_tags == LinkTags(soup)
  IN LinksLoop(link_tags, base_url,
       [total_links |-> Len(link_tags), internal_links |-> <<>>,
        external_links |-> <<>>, internal_count |-> 0, external_count |-> 0])

\* A dict is the sequence of its items in insertion order; d[key] = value
\* overwrites the value of a key the dict holds and appends a new key.
DictKeys(d) == {d[i].key : i \in 1..Len(d)}

DictGet(d, key) == d[CHOOSE i \in 1..Len(d) : d[i].key = key].value

DictSet(d, key, value) ==
  IF key \in DictKeys(d)
  THEN [i \in 1..Len(d) |-> IF d[i].key = key THEN [key |-> key, value |-> value] ELSE d[i]]
  ELSE Append(d, [key |-> key, value |-> value])

TitleKey == <<"title">>

\* The loop body as it would be with property tested before name.
MetaStepPropertyFirst(meta_info, meta) ==
  IF Truthy(Get(meta, "property"))
  THEN DictSet(meta_info, Get(meta, "property"), Get(meta, "content"))
  ELSE IF Truthy(Get(meta, "name"))
  THEN DictSet(meta_info, Get(meta, "name"), Get(meta, "content"))
  ELSE meta_info

\* The body of the loop of extract_meta_tags over one <meta>.
MetaStep(meta_info, meta) ==
  LET name == Get(meta, "name")
      property_tag == Get(meta, "property")
      content == Get(meta, "content")
  IN IF Truthy(name) THEN DictSet(meta_info, name, content)
     ELSE IF Truthy(property_tag) THEN DictSet(meta_info, property_tag, content)
     ELSE meta_info

RECURSIVE MetaLoop(_, _)
MetaLoop(metas, meta_info) ==
  IF Len(metas) = 0 THEN meta_info
  ELSE MetaLoop(Tail(metas), MetaStep(meta_info, Head(metas)))

\* extract_meta_tags(soup), the same in both variants.
extract_meta_tags(soup) ==
  LET meta_info == MetaLoop(find_all(soup, "meta"), <<>>)
  IN IF has_tag(soup, "title")
     THEN DictSet(meta_info, TitleKey, get_text_strip(find(soup, "title")))
     ELSE meta_info

\* ------------------------------------------------------ content metrics
Stylesheet == <<"stylesheet">>

\* soup.find_all('link', rel='stylesheet'): rel is a multi-valued attribute,
\* matched when one of its blank-separated values is the word.
IsStylesheetLink(e) ==
  /\ e.tag = "link"
  /\ Get(e, "rel") # None
  /\ \E i \in 1..Len(Words(Get(e, "rel"))) : Words(Get(e, "rel"))[i] = Stylesheet

\* len(text_content.split()) of the first <body>, 0 without a <body>.
WordCount(soup) ==
  IF has_tag(soup, "body") THEN Len(Words(get_text_sep(find(soup, "body")))) ELSE 0

\* paragraph_count as it would be if counted over the whole document.
ParagraphCountOfDocument(soup) == Len(find_all(soup, "p"))

\* len(body.find_all('p')), 0 without a <body>.
ParagraphCount(soup) ==
  IF has_tag(soup, "body") THEN Len(find_all(find(soup, "body").kids, "p")) ELSE 0

\* len(soup.find_all('link', rel='stylesheet'))
StylesheetCount(soup) == Len(SelectSeq(Descendants(soup), IsStylesheetLink))

\* len(soup.find_all('script', src=True))
ScriptCount(soup) ==
  Len(SelectSeq(find_all(soup, "script"), LAMBDA e : Get(e, "src") # None))

\* --------------------------------------------------------------- fetcher
USER_AGENT == <<"Mozilla/5.0 ... Chrome/91.0.4472.124 Safari/537.36">>

UserAgentKey == <<"User-Agent">>

\* HEADERS = {'User-Agent': USER_AGENT}
HEADERS == <<[key |-> UserAgentKey, value |-> USER_AGENT]>>

\* The headers of a new requests.Session(), cut to the one HEADERS touches.
DefaultHeaders == <<[key |-> UserAgentKey, value |-> <<"python-requests">>]>>

\* dict.update(other)
RECURSIVE DictUpdate(_, _)
DictUpdate(d, other) ==
  IF Len(other) = 0 THEN d
  ELSE DictUpdate(DictSet(d, Head(other).key, Head(other).value), Tail(other))

\* timeout=10 of the GET request.
Timeout == 10

\* What a GET can end as: a 2xx response with the page, a response with a
\* status >= 400 (raise_for_status raises HTTPError), no connection
\* (ConnectionError), no answer in time (Timeout).
FetchOutcomes == {"ok", "http_error", "conn_error", "timeout"}

\* An outcome that is a response of the server (which may set a cookie).
IsResponse(outcome) == outcome \in {"ok", "http_error"}

\* str(e) of the RequestException of a failed GET.
ExceptionText(outcome) ==
  CASE outcome = "http_error" -> <<"404 Client Error">>
    [] outcome = "conn_error" -> <<"Connection refused">>
    [] OTHER -> <<"Read timed out">>

SessionCookie == "sid"

\* The GET request fetch_html sends.  Variant 1 calls requests.get with
\* HEADERS (a session of its own per call, so no cookie is sent); variant 2
\* calls self.session.get, which sends the session's headers and cookies.
GetRequest(impl, url, sess) ==
  [method |-> "GET", url |-> url,
   headers |-> IF impl = 1 THEN DictUpdate(DefaultHeaders, HEADERS) ELSE sess.headers,
   cookies |-> IF impl = 1 THEN {} ELSE sess.cookies,
   timeout |-> Timeout]

\* fetch_html as it would be with one retry of a failed GET.
FetchRequestsRetry(impl, url, sess, outcome) ==
  IF outcome # "ok"
  THEN <<GetRequest(impl, url, sess), GetRequest(impl, url, sess)>>
  ELSE <<GetRequest(impl, url, sess)>>

\* The requests fetch_html(url) sends: one GET, whatever its outcome.
FetchRequests(impl, url, sess, outcome) == <<GetRequest(impl, url, sess)>>

\* The session after the GET: variant 2's session keeps the cookie a
\* response sets.
SessionAfter(impl, sess, outcome, setsCookie) ==
  IF impl = 2 /\ IsResponse(outcome) /\ setsCookie
  THEN [sess EXCEPT !.cookies = @ \cup {SessionCookie}]
  ELSE sess

\* fetch_html(url) returns None: every RequestException is caught.
FetchFails(outcome) == outcome # "ok"

\* f"Error fetching {url}: {e}"
FetchErrorLine(url, outcome) ==
  <<"Error fetching ">> \o url \o <<": ">> \o ExceptionText(outcome)

\* -------------------------------------------------------------- analyzer
\* f"Could not fetch or parse {url}"
ErrorText(url) == <<"Could not fetch or parse ">> \o url

\* The result record of a failed fetch.
ErrorResult(url) == [error |-> ErrorText(url)]

\* The result record analyze_website assembles from a parsed document.
AnalysisResult(impl, url, soup) ==
  [url |-> url,
   headings |-> extract_headings(soup),
   images |-> extract_images_info(impl, soup, url),
   links |-> extract_links_info(soup, url),
   meta_tags |-> extract_meta_tags(soup),
   word_count |-> WordCount(soup),
   paragraph_count |-> ParagraphCount(soup),
   stylesheet_count |-> StylesheetCount(soup),
   script_count |-> ScriptCount(soup)]

\* analyze_website as it would be if the failed fetch did not return at once:
\* the error is one more field of the assembled record.
AnalyzeWebsiteNoEarlyReturn(impl, url, soup, outcome) ==
  IF FetchFails(outcome)
  THEN [error |-> ErrorText(url), url |-> url, word_count |-> 0]
  ELSE AnalysisResult(impl, url, soup)

\* analyze_website(url): the result record.
analyze_website(impl, url, soup, outcome) ==
  IF FetchFails(outcome) THEN ErrorResult(url) ELSE AnalysisResult(impl, url, soup)

\* The functions analyze_website calls, in call order.
AnalyzeCalls(outcome) ==
  IF FetchFails(outcome) THEN <<"fetch_html">>
  ELSE <<"fetch_html", "extract_headings", "extract_links_info",
         "extract_meta_tags", "extract_images_info", "content_metrics">>

\* What analyze_website and fetch_html print (variant 1).
AnalyzeStdout(impl, url, outcome) ==
  IF impl = 2 THEN <<>>
  ELSE <<(<<"\n--- Analyzing: ">> \o url \o <<" ---">>)>>
       \o (IF FetchFails(outcome) THEN <<FetchErrorLine(url, outcome)>>
           ELSE <<(<<"Analysis complete.">>)>>)

\* What analyze_website and fetch_html log (variant 2).
AnalyzeLog(impl, url, outcome) ==
  IF impl = 1 THEN <<>>
  ELSE <<(<<"INFO: ", "Analyzing: ">> \o url)>>
       \o (IF FetchFails(outcome) THEN <<(<<"ERROR: ">> \o FetchErrorLine(url, outcome))>>
           ELSE <<(<<"INFO: ", "Analysis complete.">>)>>)

\* -------------------------------------------------------------- reporter
(***************************************************************************)
(* print_analysis_report(results): one entry per print() call.  Lengths    *)
(* and slices count tokens.                                                *)
(***************************************************************************)
RuleWidth1 == 50

RuleWidth2 == 60

MetaValueMax == 100

HeadingTextMax == 70

HeadingsShown == 5

AltTextMax == 50

TopAlts == 3

LinksShown == 3

Str(n) == <<ToString(n)>>

\* s[:n]
Take(s, n) == SubSeq(s, 1, IF Len(s) < n THEN Len(s) ELSE n)

Ellipsis(s, n) == IF Len(s) > n THEN <<"...">> ELSE EmptyStr

\* "=" * width
Rule(impl) == [i \in 1..(IF impl = 1 THEN RuleWidth1 ELSE RuleWidth2) |-> "="]

\* f"Error: {results['error']}"
ErrorLine(results) == <<"Error: ">> \o results.error

\* key.replace('og:', 'Open Graph ')
\* The key as it would be printed without the replace.
DisplayKeyAsStored(key) == key

DisplayKey(key) == Replace(key, "og:", <<"Open Graph ">>)

MetaLine(item) ==
  <<"  ">> \o DisplayKey(item.key) \o <<": ">>
  \o Take(item.value, MetaValueMax) \o Ellipsis(item.value, MetaValueMax)

\* The meta section: one line per item whose value is truthy.
MetaLines(meta_tags) ==
  LET shown == SelectSeq(meta_tags, LAMBDA item : Truthy(item.value))
  IN [i \in 1..Len(shown) |-> MetaLine(shown[i])]

HeadingTextLine(text) ==
  <<"    - ">> \o Take(text, HeadingTextMax) \o Ellipsis(text, HeadingTextMax)

\* The lines of one heading level.
HeadingLines(tag, texts) ==
  IF Len(texts) > 0
  THEN <<(<<"  ", UpperTok(tag), " (">> \o Str(Len(texts)) \o <<" found):">>)>>
       \o [i \in 1..Len(Take(texts, HeadingsShown)) |-> HeadingTextLine(texts[i])]
       \o (IF Len(texts) > HeadingsShown
           THEN <<(<<"    ... ">> \o Str(Len(texts) - HeadingsShown) \o <<" more">>)>>
           ELSE <<>>)
  ELSE <<(<<"  ", UpperTok(tag), ": None found">>)>>

RECURSIVE AllHeadingLines(_, _)
AllHeadingLines(headings, i) ==
  IF i > Len(HeadingOrder) THEN <<>>
  ELSE HeadingLines(HeadingOrder[i], headings[HeadingOrder[i]])
       \o AllHeadingLines(headings, i + 1)

\* Counter(alts).most_common(n): the n most frequent values, the more
\* frequent first, values of equal count in first-seen order.
CountOf(seq, x) == Cardinality({i \in 1..Len(seq) : seq[i] = x})

FirstAt(seq, x) == CHOOSE i \in 1..Len(seq) : seq[i] = x /\ \A j \in 1..(i - 1) : seq[j] # x

RECURSIVE MostCommon(_, _, _)
MostCommon(seq, left, n) ==
  IF n = 0 \/ left = {} THEN <<>>
  ELSE LET best == CHOOSE x \in left : \A y \in left :
                     \/ CountOf(seq, x) > CountOf(seq, y)
                     \/ (CountOf(seq, x) = CountOf(seq, y) /\ FirstAt(seq, x) <= FirstAt(seq, y))
       IN <<[alt |-> best, count |-> CountOf(seq, best)]>>
          \o MostCommon(seq, left \ {best}, n - 1)

AltLine(entry) ==
  <<"    - '">> \o Take(entry.alt, AltTextMax) \o <<"...' (x">> \o Str(entry.count) \o <<")">>

\* The image section.
ImageLines(images) ==
  LET details == images.image_details
      with == SelectSeq(details, LAMBDA img : Truthy(img.alt))
      alts == [i \in 1..Len(with) |-> with[i].alt]
      missing_alts == images.total_images - Len(alts)
      common == MostCommon(alts, {alts[i] : i \in 1..Len(alts)}, TopAlts)
  IN <<(<<"  Total Images: ">> \o Str(images.total_images))>>
     \o (IF images.total_images > 0
         THEN <<(<<"  Images with Alt text: ">> \o Str(Len(alts))),
                (<<"  Images with Missing Alt text: ">> \o Str(missing_alts))>>
              \o (IF missing_alts > 0
                  THEN <<(<<"  (Consider adding alt text for accessibility and SEO)">>)>>
                  ELSE <<>>)
              \o (IF Len(alts) > 0
                  THEN <<(<<"  Most common Alt texts:">>)>>
                       \o [i \in 1..Len(common) |-> AltLine(common[i])]
                  ELSE <<>>)
         ELSE <<>>)

\* f"    - [{link['text'] or 'No Text'}]({link['href']})"
LinkLine(link) ==
  <<"    - [">> \o (IF link.text # EmptyStr THEN link.text ELSE <<"No Text">>)
  \o <<"](">> \o link.href \o <<")">>

ExampleLinks(title, count, list) ==
  IF count > 0
  THEN <<title>> \o [i \in 1..Len(Take(list, LinksShown)) |-> LinkLine(list[i])]
  ELSE <<>>

\* The link section.
LinkLines(links) ==
  <<(<<"  Total Links: ">> \o Str(links.total_links)),
    (<<"  Internal Links: ">> \o Str(links.internal_count)),
    (<<"  External Links: ">> \o Str(links.external_count))>>
  \o ExampleLinks(<<"  Example Internal Links:">>, links.internal_count, links.internal_links)
  \o ExampleLinks(<<"  Example External Links:">>, links.external_count, links.external_links)

\* The content metrics section.
MetricLines(results) ==
  <<(<<"  Approx. Word Count: ">> \o Str(results.word_count)),
    (<<"  Paragraphs Found: ">> \o Str(results.paragraph_count)),
    (<<"  External Stylesheets: ">> \o Str(results.stylesheet_count)),
    (<<"  External Scripts: ">> \o Str(results.script_count))>>

\* print_analysis_report(results): what it prints.
print_analysis_report(impl, results) ==
  IF "error" \in DOMAIN results THEN <<ErrorLine(results)>>
  ELSE <<(<<"\n">> \o Rule(impl)),
         (<<"Website Analysis Report for: ">> \o results.url),
         Rule(impl),
         (<<"\n--- SEO/Meta Information ---">>)>>
       \o MetaLines(results.meta_tags)
       \o <<(<<"\n--- Headings Summary ---">>)>>
       \o AllHeadingLines(results.headings, 1)
       \o <<(<<"\n--- Image Summary ---">>)>>
       \o ImageLines(results.images)
       \o <<(<<"\n--- Link Summary ---">>)>>
       \o LinkLines(results.links)
       \o <<(<<"\n--- Content Metrics ---">>)>>
       \o MetricLines(results)
       \o <<(<<"\n">> \o Rule(impl))>>

\* ---------------------------------------------------------- CLI driver
\* valid_url(url): url.startswith(("http://", "https://"))
valid_url(url) == StartsWith(url, HttpPrefix) \/ StartsWith(url, HttpsPrefix)

Quit == <<"quit">>

\* target_url.lower() == 'quit'
IsQuit(target_url) == Lower(target_url) = Quit

InvalidUrlMessage == <<"Invalid URL. Please include 'http://' or 'https://'.">>

WelcomeLines(impl) ==
  IF impl = 1
  THEN <<(<<"Welcome to the Website Content Analyzer for Design Insights!">>),
         (<<"This tool helps you analyze website structures for design and SEO hints.">>)>>
  ELSE <<(<<"Welcome to the Website Content Analyzer for Design Insights!", "\n",
            "This tool helps you analyze website structures for design and SEO hints.">>)>>

GoodbyeLine == <<"\nThank you for using the Website Content Analyzer. Goodbye!">>

\* ---------------------------------------------------------- environment
(***************************************************************************)
(* The web the program runs against: one server that serves one page at    *)
(* one URL and may set a session cookie with every response.  A GET of the *)
(* page's URL may succeed, be answered with an error status or time out;   *)
(* a GET of any other URL is answered with an error status or fails to     *)
(* connect.                                                                *)
(***************************************************************************)
Outcomes(web, url) ==
  IF url = web.url THEN {"ok", "http_error", "timeout"} ELSE {"http_error", "conn_error"}

ExampleCom == <<"https", ":", "/", "/", "example.com">>

BaseRoot == ExampleCom

BaseBlog == ExampleCom \o <<"/", "blog", "/">>

BaseHttpFile == <<"http", ":", "/", "/", "example.com", "/", "a", "/", "b">>

BasePort == <<"https", ":", "/", "/", "example.com", ":", "8080", "/", "x">>

MissingUrl == ExampleCom \o <<"/", "missing">>

\* Every document of at most MaxElems top-level elements drawn from elems.
DocsOver(elems) == UNION {[1..n -> elems] : n \in 0..MaxElems}

\* The documents over core, and every document of one element of elems.
PagesOver(core, elems) == DocsOver(core) \cup {<<e>> : e \in elems}

\* What the operator may type or pass that is neither a URL the program
\* accepts nor a quit word.
InvalidInputs ==
  {<<"example.com">>,
   <<"ftp", ":", "/", "/", "f.org", "/", "x">>,
   <<"HTTP", ":", "/", "/", "example.com">>,
   <<" ", "quit">>}

QuitWords == {<<"quit">>, <<"QUIT">>, <<"Quit">>}

\* sys.argv[1:]: no argument (None), or one argument.
Args(web) == {None, EmptyStr} \cup InvalidInputs \cup QuitWords \cup {web.url, MissingUrl}

\* What input() may return.
Typed(web) == {EmptyStr} \cup InvalidInputs \cup QuitWords \cup {web.url, MissingUrl}

VARIABLES
  impl,      \* 1: website_analyzer.py, 2: website_analyzer2.py
  web,       \* the server: [url, page, cookie]
  pc,        \* "start", "prompt" (before input()), "done"
  input,     \* the URL argument or the line read last, None before any
  source,    \* where input came from: "none", "argv", "stdin"
  outcome,   \* how the GET of the last step ended, "none" without a fetch
  session,   \* variant 2's self.session: [headers, cookies]
  requests,  \* the HTTP requests the last step sent
  calls,     \* the functions analyze_website called in the last step
  results,   \* the result record of the last analysis
  stdout,    \* what the last step printed outside print_analysis_report
  report,    \* what print_analysis_report printed in the last step
  log        \* what the last step logged (variant 2's logging)

vars == <<impl, web, pc, input, source, outcome, session, requests, calls,
          results, stdout, report, log>>

\* No analysis has run.
NoResults == [pending |-> TRUE]

NoSession == [headers |-> <<>>, cookies |-> {}]

\* WebsiteAnalyzer(): a new session whose headers HEADERS update.
NewSession == [headers |-> DictUpdate(DefaultHeaders, HEADERS), cookies |-> {}]

InitWith(pages, urls, cookieChoices) ==
  /\ impl \in {1, 2}
  /\ web \in [url : urls, page : pages, cookie : cookieChoices]
  /\ pc = "start"
  /\ input = None
  /\ source = "none"
  /\ outcome = "none"
  /\ session = NoSession
  /\ requests = <<>>
  /\ calls = <<>>
  /\ results = NoResults
  /\ stdout = <<>>
  /\ report = <<>>
  /\ log = <<>>

\* analyze_website(url) followed by print_analysis_report(results), with the
\* GET ending as out; before are the lines printed earlier in the step.
AnalyzeAndReport(url, sess, out, before) ==
  /\ outcome' = out
  /\ requests' = FetchRequests(impl, url, sess, out)
  /\ session' = SessionAfter(impl, sess, out, web.cookie)
  /\ calls' = AnalyzeCalls(out)
  /\ results' = analyze_website(impl, url, web.page, out)
  /\ stdout' = before \o AnalyzeStdout(impl, url, out)
  /\ report' = print_analysis_report(impl, results')
  /\ log' = AnalyzeLog(impl, url, out)

\* A step that runs no analysis.
NoAnalysis(sess, printed) ==
  /\ outcome' = "none"
  /\ requests' = <<>>
  /\ session' = sess
  /\ calls' = <<>>
  /\ results' = results
  /\ stdout' = printed
  /\ report' = <<>>
  /\ log' = <<>>

\* website_analyzer.py __main__: the welcome, then the loop.
Main1 ==
  /\ pc = "start" /\ impl = 1
  /\ pc' = "prompt"
  /\ NoAnalysis(session, WelcomeLines(1))
  /\ UNCHANGED <<impl, web, input, source>>

\* website_analyzer2.py main() with a URL argument that is not valid.
MainInvalidArg ==
  /\ pc = "start" /\ impl = 2
  /\ \E arg \in Args(web) :
       /\ Truthy(arg) /\ ~valid_url(arg)
       /\ input' = arg
  /\ source' = "argv"
  /\ pc' = "done"
  /\ NoAnalysis(NewSession, <<InvalidUrlMessage>>)
  /\ UNCHANGED <<impl, web>>

\* main() with a valid URL argument: one analysis, then the program ends.
MainAnalyzeArg ==
  /\ pc = "start" /\ impl = 2
  /\ \E arg \in Args(web) :
       /\ Truthy(arg) /\ valid_url(arg)
       /\ input' = arg
       /\ \E out \in Outcomes(web, arg) : AnalyzeAndReport(arg, NewSession, out, <<>>)
  /\ source' = "argv"
  /\ pc' = "done"
  /\ UNCHANGED <<impl, web>>

\* main() with args.url falsy (no argument, or an empty one): the welcome,
\* then the loop.
MainInteractive ==
  /\ pc = "start" /\ impl = 2
  /\ \E arg \in Args(web) :
       /\ ~Truthy(arg)
       /\ input' = arg
       /\ source' = IF arg = None THEN "none" ELSE "argv"
  /\ pc' = "prompt"
  /\ NoAnalysis(NewSession, WelcomeLines(2))
  /\ UNCHANGED <<impl, web>>

\* The loop reads a quit word: break, the goodbye, the program ends.
LoopQuit ==
  /\ pc = "prompt"
  /\ \E target_url \in Typed(web) :
       /\ IsQuit(target_url)
       /\ input' = target_url
  /\ source' = "stdin"
  /\ pc' = "done"
  /\ NoAnalysis(session, <<GoodbyeLine>>)
  /\ UNCHANGED <<impl, web>>

\* The loop reads a line that is no valid URL: the message, continue.
LoopInvalid ==
  /\ pc = "prompt"
  /\ \E target_url \in Typed(web) :
       /\ ~IsQuit(target_url) /\ ~valid_url(target_url)
       /\ input' = target_url
  /\ source' = "stdin"
  /\ pc' = "prompt"
  /\ NoAnalysis(session, <<InvalidUrlMessage>>)
  /\ UNCHANGED <<impl, web>>

\* The loop reads a valid URL: one analysis and its report, then the prompt.
LoopAnalyze ==
  /\ pc = "prompt"
  /\ \E target_url \in Typed(web) :
       /\ ~IsQuit(target_url) /\ valid_url(target_url)
       /\ input' = target_url
       /\ \E out \in Outcomes(web, target_url) :
            AnalyzeAndReport(target_url, session, out, <<>>)
  /\ source' = "stdin"
  /\ pc' = "prompt"
  /\ UNCHANGED <<impl, web>>

Next ==
  \/ Main1
  \/ MainInvalidArg
  \/ MainAnalyzeArg
  \/ MainInteractive
  \/ LoopQuit
  \/ LoopInvalid
  \/ LoopAnalyze

\* ------------------------------------------------------ pages and specs
Text(word) == <<(<<word>>)>>

\* Scenario A: <h1>Hello</h1><h1></h1><h2>World</h2>
H1Hello == El("h1", NoAttrs, Text("Hello"), <<>>)

H1Empty == El("h1", NoAttrs, <<>>, <<>>)

H2World == El("h2", NoAttrs, Text("World"), <<>>)

ScenarioA == <<H1Hello, H1Empty, H2World>>

\* <h1> </h1>, <h1> Hi </h1>, <h3>Big <b>News</b></h3>, <h6>End</h6>, <p>one two</p>
H1Blank == El("h1", NoAttrs, <<(<<" ">>)>>, <<>>)

H1Padded == El("h1", NoAttrs, <<(<<" ", "Hi", " ">>)>>, <<>>)

H3TwoNodes == El("h3", NoAttrs, <<(<<"Big", " ">>), (<<"News">>)>>, <<>>)

H6End == El("h6", NoAttrs, Text("End"), <<>>)

POneTwo == El("p", NoAttrs, <<(<<"one", " ", "two">>)>>, <<>>)

HeadingElems == {H1Hello, H1Empty, H2World, H1Blank, H1Padded, H3TwoNodes, H6End, POneTwo}

HeadingCore == {H1Hello, H1Empty, H2World, H1Padded}

HeadingPages == PagesOver(HeadingCore, HeadingElems) \cup {ScenarioA}

\* Scenario C: <a href="/about">About</a> and <a href="https://other.com">Other</a>
AAbout == El("a", Attrs([href |-> <<"/", "about">>]), Text("About"), <<>>)

OtherCom == <<"https", ":", "/", "/", "other.com">>

AOther == El("a", Attrs([href |-> OtherCom]), Text("Other"), <<>>)

ScenarioC == <<AAbout, AOther>>

\* <a href="http://example.com/x">, <a href="mailto:a@b">, <a>Top</a>,
\* <a href=" ../up ">, <a href="https://example.com:8080/y">, <a href="#top">,
\* <a href="//cdn.com/x">, <a href="https://Example.com/z">
AHttpSameHost ==
  El("a", Attrs([href |-> <<"http", ":", "/", "/", "example.com", "/", "x">>]), <<>>, <<>>)

AMailto == El("a", Attrs([href |-> <<"mailto", ":", "a", "@", "b">>]), Text("Mail"), <<>>)

ANoHref == El("a", NoAttrs, Text("Top"), <<>>)

AUpPadded == El("a", Attrs([href |-> <<" ", "..", "/", "up", " ">>]), Text("Up"), <<>>)

APort ==
  El("a", Attrs([href |-> <<"https", ":", "/", "/", "example.com", ":", "8080", "/", "y">>]),
     Text("Port"), <<>>)

AFragment == El("a", Attrs([href |-> <<"#", "top">>]), Text("Top"), <<>>)

ASchemeRelative ==
  El("a", Attrs([href |-> <<"/", "/", "cdn.com", "/", "x">>]), Text("Cdn"), <<>>)

AUpperHost ==
  El("a", Attrs([href |-> <<"https", ":", "/", "/", "Example.com", "/", "z">>]), <<>>, <<>>)

LinkElems == {AAbout, AOther, AHttpSameHost, AMailto, ANoHref, AUpPadded, APort,
              AFragment, ASchemeRelative, AUpperHost}

LinkCore == {AAbout, AOther, AHttpSameHost, ANoHref}

LinkPages == PagesOver(LinkCore, LinkElems)

Bases == {BaseRoot, BaseBlog, BaseHttpFile, BasePort}

\* Scenario B: <img src="../logo.png"> on https://example.com/blog/
ImgUp == El("img", Attrs([src |-> <<"..", "/", "logo.png">>]), <<>>, <<>>)

ScenarioB == <<ImgUp>>

\* <img src="/img/a.png" alt="A" width="10" height="20">, <img src="logo.png" alt="">,
\* <img alt="Logo">, <img src="https://cdn.com/x.png" alt="A">,
\* <img src="//cdn.com/x.png">, <img src="">, <img src="data:abc">
ImgRooted ==
  El("img", Attrs([src |-> <<"/", "img", "/", "a.png">>, alt |-> <<"A">>,
                   width |-> <<"10">>, height |-> <<"20">>]), <<>>, <<>>)

ImgBare == El("img", Attrs([src |-> <<"logo.png">>, alt |-> EmptyStr]), <<>>, <<>>)

ImgNoSrc == El("img", Attrs([alt |-> <<"Logo">>]), <<>>, <<>>)

CdnPng == <<"https", ":", "/", "/", "cdn.com", "/", "x.png">>

ImgAbs == El("img", Attrs([src |-> CdnPng, alt |-> <<"A">>]), <<>>, <<>>)

ImgSchemeRelative ==
  El("img", Attrs([src |-> <<"/", "/", "cdn.com", "/", "x.png">>]), <<>>, <<>>)

ImgEmptySrc == El("img", Attrs([src |-> EmptyStr]), <<>>, <<>>)

ImgData == El("img", Attrs([src |-> <<"data", ":", "abc">>]), <<>>, <<>>)

ImgElems == {ImgUp, ImgRooted, ImgBare, ImgNoSrc, ImgAbs, ImgSchemeRelative,
             ImgEmptySrc, ImgData}

ImgCore == {ImgUp, ImgRooted, ImgNoSrc, ImgAbs}

ImagePages == PagesOver(ImgCore, ImgElems)

\* <a href="https://other.com/p#">, <a href="HTTPS://example.com/x">,
\* <a href="https://other.com/a/../b">, <a href="https://other.com/p?q#f">,
\* <img src="http://example.com/a/./b.png">
AEmptyFragment ==
  El("a", Attrs([href |-> OtherCom \o <<"/", "p", "#">>]), Text("Hash"), <<>>)

AUpperScheme ==
  El("a", Attrs([href |-> <<"HTTPS", ":", "/", "/", "example.com", "/", "x">>]), <<>>, <<>>)

ADotSegments ==
  El("a", Attrs([href |-> OtherCom \o <<"/", "a", "/", "..", "/", "b">>]), <<>>, <<>>)

AQueryFragment ==
  El("a", Attrs([href |-> OtherCom \o <<"/", "p", "?", "q", "#", "f">>]), <<>>, <<>>)

ImgAbsDots ==
  El("img", Attrs([src |-> <<"http", ":", "/", "/", "example.com", "/", "a", "/", ".",
                             "/", "b.png">>]), <<>>, <<>>)

ResolveElems == {AEmptyFragment, AUpperScheme, ADotSegments, AQueryFragment, AOther,
                 AHttpSameHost, AAbout, AUpPadded, APort, ImgAbs, ImgSchemeRelative,
                 ImgAbsDots, ImgUp, ImgBare, ImgData}

ResolveCore == {AOther, AAbout, ImgAbs, ImgUp}

ResolvePages == PagesOver(ResolveCore, ResolveElems)

\* Scenario E: <meta property="og:title" content="Hi">
MetaOgTitle ==
  El("meta", Attrs([property |-> <<"og:", "title">>, content |-> <<"Hi">>]), <<>>, <<>>)

ScenarioE == <<MetaOgTitle>>

\* <meta name="description" content="Desc">, the same name with content="Other",
\* <meta name="title" content="MetaTitle">, <meta name="" property="og:title" content="P">,
\* <meta charset="utf-8">, <meta name="author" property="og:author" content="Ann">,
\* <meta name="viewport">, <meta property="blog:tag" content="T">,
\* <title> My Title </title>, <title></title>
MetaDesc ==
  El("meta", Attrs([name |-> <<"description">>, content |-> <<"Desc">>]), <<>>, <<>>)

MetaDescOther ==
  El("meta", Attrs([name |-> <<"description">>, content |-> <<"Other">>]), <<>>, <<>>)

MetaNamedTitle ==
  El("meta", Attrs([name |-> TitleKey, content |-> <<"MetaTitle">>]), <<>>, <<>>)

MetaEmptyName ==
  El("meta", Attrs([name |-> EmptyStr, property |-> <<"og:", "title">>,
                    content |-> <<"P">>]), <<>>, <<>>)

MetaCharset == El("meta", NoAttrs, <<>>, <<>>)

MetaBoth ==
  El("meta", Attrs([name |-> <<"author">>, property |-> <<"og:", "author">>,
                    content |-> <<"Ann">>]), <<>>, <<>>)

MetaNoContent == El("meta", Attrs([name |-> <<"viewport">>]), <<>>, <<>>)

MetaBlogTag ==
  El("meta", Attrs([property |-> <<"bl", "og:", "tag">>, content |-> <<"T">>]), <<>>, <<>>)

TitlePadded == El("title", NoAttrs, <<(<<" ", "My", " ", "Title", " ">>)>>, <<>>)

TitleEmpty == El("title", NoAttrs, <<>>, <<>>)

MetaElems == {MetaOgTitle, MetaDesc, MetaDescOther, MetaNamedTitle, MetaEmptyName,
              MetaCharset, MetaBoth, MetaNoContent, MetaBlogTag, TitlePadded, TitleEmpty}

MetaCore == {MetaDesc, MetaDescOther, MetaNamedTitle, TitlePadded, MetaEmptyName}

MetaPages == PagesOver(MetaCore, MetaElems)

\* <link rel="stylesheet" href="s.css">, <link rel="preload stylesheet">,
\* <link rel="icon">, <script src="a.js">, <script>var x</script>,
\* <body></body>, <body>Hi <p>one two</p></body>,
\* <body><p>one two</p><script src="a.js"></script><link rel="stylesheet"></body>
LinkStylesheet ==
  El("link", Attrs([rel |-> Stylesheet, href |-> <<"s.css">>]), <<>>, <<>>)

LinkPreloadStylesheet ==
  El("link", Attrs([rel |-> <<"preload", " ", "stylesheet">>]), <<>>, <<>>)

LinkIcon == El("link", Attrs([rel |-> <<"icon">>]), <<>>, <<>>)

ScriptSrc == El("script", Attrs([src |-> <<"a.js">>]), <<>>, <<>>)

ScriptInline == El("script", NoAttrs, <<(<<"var", " ", "x">>)>>, <<>>)

BodyEmpty == El("body", NoAttrs, <<>>, <<>>)

BodyText == El("body", NoAttrs, <<(<<"Hi", " ">>)>>, <<POneTwo>>)

BodyFull == El("body", NoAttrs, <<>>, <<POneTwo, ScriptSrc, LinkStylesheet>>)

MetricElems == {LinkStylesheet, LinkPreloadStylesheet, LinkIcon, ScriptSrc, ScriptInline,
                BodyEmpty, BodyText, BodyFull, POneTwo}

MetricCore == {LinkStylesheet, ScriptSrc, BodyText, POneTwo}

MetricPages == PagesOver(MetricCore, MetricElems)

\* Pages of the driver's runs: the empty page and the scenarios' pages.
DriverPages == {<<>>, ScenarioA, ScenarioB, ScenarioC, ScenarioE, <<BodyFull>>}

Init == InitWith(DriverPages, {BaseRoot, BaseBlog}, BOOLEAN)

Spec == Init /\ [][Next]_vars

InitHeadings == InitWith(HeadingPages, {BaseRoot}, {FALSE})

SpecHeadings == InitHeadings /\ [][Next]_vars

InitLinks == InitWith(LinkPages, Bases, {FALSE})

SpecLinks == InitLinks /\ [][Next]_vars

InitImages == InitWith(ImagePages, Bases, {FALSE})

SpecImages == InitImages /\ [][Next]_vars

InitResolve == InitWith(ResolvePages, Bases, {FALSE})

SpecResolve == InitResolve /\ [][Next]_vars

InitMeta == InitWith(MetaPages, {BaseRoot}, {FALSE})

SpecMeta == InitMeta /\ [][Next]_vars

InitMetrics == InitWith(MetricPages, {BaseRoot}, {FALSE})

SpecMetrics == InitMetrics /\ [][Next]_vars

\* ---------------------------------------------------------------- claims
\* The last analysis succeeded: results is the record of web.page.
Success == "url" \in DOMAIN results

\* The last step ran an analysis whose fetch failed.
FetchFailed == outcome \in {"http_error", "conn_error", "timeout"}

\* The one line of the report of a failed fetch of url, written out.
ExpectedErrorReport(url) == <<(<<"Error: ", "Could not fetch or parse ">> \o url)>>

\* C1: when the fetch fails (status >= 400, connection error, timeout) the
\* result is the record whose only field is error = "Could not fetch or
\* parse " + url, no extractor or metric runs, the step ends normally, and
\* print_analysis_report prints exactly the line "Error: Could not fetch or
\* parse <url>"; a result never holds both an error and analysis fields.
C1_FetchFailureIsErrorRecord ==
  /\ "error" \in DOMAIN results => DOMAIN results = {"error"}
  /\ FetchFailed =>
       /\ DOMAIN results = {"error"}
       /\ results.error = <<"Could not fetch or parse ">> \o input
       /\ calls = <<"fetch_html">>
       /\ report = ExpectedErrorReport(input)
       /\ pc \in {"prompt", "done"}
  /\ (input = MissingUrl /\ outcome = "http_error") =>
       report = <<(<<"Error: ", "Could not fetch or parse ", "https", ":", "/", "/",
                    "example.com", "/", "missing">>)>>

\* Scenario D: the GET of https://example.com/missing was answered 404.
C1_Witness ==
  /\ input = MissingUrl
  /\ outcome = "http_error"
  /\ "error" \in DOMAIN results
  /\ Len(report) = 1

\* The input of the last step was a string that is no valid URL (and, read
\* by the loop, no quit word).
InvalidInputHandled ==
  /\ source \in {"argv", "stdin"}
  /\ input # None
  /\ ~valid_url(input)
  /\ ~(source = "stdin" /\ IsQuit(input))

\* C2: an input that does not start with "http://" or "https://" is never
\* passed to the fetcher: the message "Invalid URL. ..." is printed and the
\* loop prompts again or, for a command-line argument, the program exits
\* without any fetch.
C2_InvalidUrlRejected ==
  InvalidInputHandled =>
    /\ requests = <<>>
    /\ stdout = <<InvalidUrlMessage>>
    /\ pc = IF source = "argv" THEN "done" ELSE "prompt"

\* The part of C2 the code keeps in every run: no request for an invalid URL.
C2_NoFetchOfInvalidUrl ==
  /\ \A i \in 1..Len(requests) : valid_url(requests[i].url)
  /\ InvalidInputHandled => requests = <<>>

\* C10: every analysis of an accepted URL sends exactly one GET, for that
\* URL; a failed fetch is not retried and the run ends with the error
\* report; in interactive mode the loop is then back at the prompt, where
\* the same URL, another URL or a quit word can be entered; a quit word in
\* any letter case ends the loop.
C10_OneGetPerAnalysis ==
  /\ calls # <<>> =>
       /\ Len(requests) = 1
       /\ requests[1].method = "GET"
       /\ requests[1].url = input
  /\ calls = <<>> => requests = <<>>
  /\ FetchFailed =>
       /\ report = ExpectedErrorReport(input)
       /\ source = "stdin" => pc = "prompt"
  /\ (source = "stdin" /\ input \in {<<"quit">>, <<"QUIT">>, <<"Quit">>}) => pc = "done"
  /\ pc = "prompt" =>
       /\ ENABLED LoopQuit
       /\ ENABLED LoopAnalyze

\* A fetch the loop ran has failed and the loop is back at the prompt.
C10_Witness ==
  /\ source = "stdin"
  /\ outcome = "timeout"
  /\ Len(requests) = 1
  /\ pc = "prompt"

\* The elements of the served page with a tag, in document order.
RECURSIVE ElementsOf(_, _)
ElementsOf(elems, tag) ==
  IF elems = <<>> THEN <<>>
  ELSE (IF Head(elems).tag = tag THEN <<Head(elems)>> ELSE <<>>)
       \o ElementsOf(Head(elems).kids, tag) \o ElementsOf(Tail(elems), tag)

\* The non-empty trimmed texts of the elements of a heading level, in
\* document order.
RECURSIVE TrimmedTexts(_)
TrimmedTexts(elems) ==
  IF elems = <<>> THEN <<>>
  ELSE (IF get_text_strip(Head(elems)) = <<>> THEN <<>>
        ELSE <<get_text_strip(Head(elems))>>) \o TrimmedTexts(Tail(elems))

\* C9: extract_headings returns a map with exactly the keys h1 to h6; the
\* list of a level holds the trimmed texts of the elements of that level in
\* document order without the elements whose trimmed text is empty, so no
\* list holds an empty string; <h1>Hello</h1><h1></h1><h2>World</h2> gives
\* h1 = ["Hello"], h2 = ["World"] and empty lists for h3 to h6.
C9_HeadingsTrimmedNonEmptyInOrder ==
  Success =>
    /\ DOMAIN results.headings = {"h1", "h2", "h3", "h4", "h5", "h6"}
    /\ \A tag \in DOMAIN results.headings :
         /\ results.headings[tag] = TrimmedTexts(ElementsOf(web.page, tag))
         /\ \A i \in 1..Len(results.headings[tag]) :
              /\ results.headings[tag][i] # <<>>
              /\ results.headings[tag][i][1] # " "
              /\ results.headings[tag][i][Len(results.headings[tag][i])] # " "
    /\ web.page = ScenarioA =>
         results.headings = [h1 |-> <<(<<"Hello">>)>>, h2 |-> <<(<<"World">>)>>,
                             h3 |-> <<>>, h4 |-> <<>>, h5 |-> <<>>, h6 |-> <<>>]

\* Scenario A has been analysed.
C9_Witness ==
  /\ Success
  /\ web.page = ScenarioA
  /\ Len(results.headings["h1"]) = 1

\* A URL that starts with a scheme and ":" (RFC 3986 absolute URI).
IsAbsoluteUrl(u) ==
  /\ Len(u) >= 2
  /\ u[2] = ":"
  /\ u[1] \notin {":", "/", "?", "#", "@", " ", ".", ".."}

\* The number of <a> elements of the served page that carry an href.
HrefCount ==
  Cardinality({i \in 1..Len(ElementsOf(web.page, "a")) :
                 ElementsOf(web.page, "a")[i].attrs["href"] # None})

\* C3: for every document and every http(s) base URL the result of
\* extract_links_info has internal_count + external_count = total_links,
\* each count is the length of its list, and the href of every record of
\* either list is an absolute URL.
C3_LinkCountsAndAbsoluteHrefs ==
  Success =>
    /\ results.links.internal_count + results.links.external_count
         = results.links.total_links
    /\ results.links.total_links = HrefCount
    /\ results.links.internal_count = Len(results.links.internal_links)
    /\ results.links.external_count = Len(results.links.external_links)
    /\ \A i \in 1..Len(results.links.internal_links) :
         IsAbsoluteUrl(results.links.internal_links[i].href)
    /\ \A i \in 1..Len(results.links.external_links) :
         IsAbsoluteUrl(results.links.external_links[i].href)

\* A page with a relative and an absolute link has been analysed on a base
\* with a path.
C3_Witness ==
  /\ Success
  /\ web.url = BaseBlog
  /\ web.page = <<AOther, AAbout>>
  /\ results.links.total_links = 2
  /\ results.links.internal_links[1].href = ExampleCom \o <<"/", "about">>

\* s up to its first token of stops.
RECURSIVE TakeUntil(_, _)
TakeUntil(s, stops) ==
  IF s = <<>> \/ Head(s) \in stops THEN <<>>
  ELSE <<Head(s)>> \o TakeUntil(Tail(s), stops)

\* The authority of an absolute URL as it is written: what stands between
\* "scheme://" and the next "/", "?" or "#" ('' without "//").
NetlocText(u) ==
  IF Len(u) >= 4 /\ u[2] = ":" /\ u[3] = "/" /\ u[4] = "/"
  THEN TakeUntil(SubSeq(u, 5, Len(u)), {"/", "?", "#"})
  ELSE <<>>

\* Scheme, host and port of an absolute URL, host and port as written.
OriginOf(u) ==
  [scheme |-> Lower(<<u[1]>>),
   host |-> TakeUntil(NetlocText(u), {":"}),
   port |-> SubSeq(NetlocText(u), Len(TakeUntil(NetlocText(u), {":"})) + 2,
                   Len(NetlocText(u)))]

\* C4 as the spec states it: a link is internal if and only if scheme, host
\* and port of its resolved href equal those of the base URL.
C4_InternalIffSameOrigin ==
  Success =>
    /\ \A i \in 1..Len(results.links.internal_links) :
         OriginOf(results.links.internal_links[i].href) = OriginOf(results.url)
    /\ \A i \in 1..Len(results.links.external_links) :
         OriginOf(results.links.external_links[i].href) # OriginOf(results.url)

\* C4, amended: every <a href> is in exactly one list; it is in the internal
\* list if and only if the netloc of its resolved href, compared as written,
\* equals the netloc of the base URL, whatever the two schemes are; for base
\* https://example.com the links /about and https://other.com give
\* internal_count = 1 and external_count = 1.
C4_InternalIffSameNetloc ==
  Success =>
    /\ Len(results.links.internal_links) + Len(results.links.external_links) = HrefCount
    /\ \A i \in 1..Len(results.links.internal_links) :
         NetlocText(results.links.internal_links[i].href) = NetlocText(results.url)
    /\ \A i \in 1..Len(results.links.external_links) :
         NetlocText(results.links.external_links[i].href) # NetlocText(results.url)
    /\ (web.url = BaseRoot /\ web.page = ScenarioC) =>
         /\ results.links.internal_count = 1
         /\ results.links.external_count = 1
         /\ results.links.internal_links[1].href = ExampleCom \o <<"/", "about">>
         /\ results.links.external_links[1].href = OtherCom

\* A link to the same host with the other scheme has been classified.
C4_Witness ==
  /\ Success
  /\ web.url = BaseRoot
  /\ web.page = <<AHttpSameHost, AOther>>
  /\ results.links.internal_count = 1
  /\ results.links.external_count = 1

\* RFC 3986, 5.2.4: the last segment of the output buffer and its "/" removed.
DropLastSegment(out) ==
  IF \A k \in 1..Len(out) : out[k] # "/" THEN <<>>
  ELSE SubSeq(out, 1, (CHOOSE k \in 1..Len(out) :
                         out[k] = "/" /\ \A j \in (k + 1)..Len(out) : out[j] # "/") - 1)

\* The first path segment of a non-empty input buffer, with its leading "/".
FirstSegment(in) ==
  IF in[1] = "/" THEN <<"/">> \o TakeUntil(Tail(in), {"/"}) ELSE TakeUntil(in, {"/"})

\* RFC 3986, 5.2.4 remove_dot_segments, steps 2A to 2E on the input buffer.
RECURSIVE RemoveDotSegments(_, _)
RemoveDotSegments(in, out) ==
  IF in = <<>> THEN out
  ELSE IF StartsWith(in, <<"..", "/">>) \/ StartsWith(in, <<".", "/">>)
  THEN RemoveDotSegments(SubSeq(in, 3, Len(in)), out)
  ELSE IF StartsWith(in, <<"/", ".", "/">>)
  THEN RemoveDotSegments(SubSeq(in, 3, Len(in)), out)
  ELSE IF in = <<"/", ".">>
  THEN RemoveDotSegments(<<"/">>, out)
  ELSE IF StartsWith(in, <<"/", "..", "/">>)
  THEN RemoveDotSegments(SubSeq(in, 3, Len(in)), DropLastSegment(out))
  ELSE IF in = <<"/", "..">>
  THEN RemoveDotSegments(<<"/">>, DropLastSegment(out))
  ELSE IF in \in {<<".">>, <<"..">>}
  THEN out
  ELSE RemoveDotSegments(SubSeq(in, Len(FirstSegment(in)) + 1, Len(in)),
                         out \o FirstSegment(in))

\* The path of an absolute URL scheme://authority/path?query#fragment.
PathText(u) ==
  TakeUntil(SubSeq(u, 5 + Len(NetlocText(u)), Len(u)), {"?", "#"})

\* RFC 3986, 5.2.3: the base path up to its last "/" followed by the
\* reference's path ("/" and the path for a base with an authority and an
\* empty path).
MergePaths(base, rpath) ==
  IF PathText(base) = <<>> THEN <<"/">> \o rpath
  ELSE DropLastSegment(PathText(base)) \o <<"/">> \o rpath

\* RFC 3986, 5.2.2 for a base scheme://authority/path without query and a
\* reference that is a non-empty path without scheme and authority, followed
\* or not by a query and a fragment.
Rfc3986Resolve(base, ref) ==
  <<base[1], ":", "/", "/">> \o NetlocText(base)
    \o RemoveDotSegments(IF ref[1] = "/" THEN TakeUntil(ref, {"?", "#"})
                          ELSE MergePaths(base, TakeUntil(ref, {"?", "#"})), <<>>)
    \o SubSeq(ref, Len(TakeUntil(ref, {"?", "#"})) + 1, Len(ref))

\* A src extract_images_info has to resolve: present, not empty, a path
\* (no scheme, no "http://", "https://" or "//" in front).
IsRelativeSrc(src) ==
  /\ src # None
  /\ src # <<>>
  /\ ~IsAbsoluteUrl(src)
  /\ ~(Len(src) >= 2 /\ src[1] = "/" /\ src[2] = "/")
  /\ src[1] \notin {"?", "#"}

\* C5: for every <img> whose src is present and does not start with
\* "http://", "https://" or "//", the src of its record is the RFC 3986
\* resolution of that src against base_url, for every form of base_url and
\* of src; with base https://example.com/blog/ the src ../logo.png gives
\* https://example.com/logo.png.
C5_ImageSrcIsRfc3986Resolution ==
  Success =>
    /\ \A i \in 1..Len(ElementsOf(web.page, "img")) :
         IsRelativeSrc(ElementsOf(web.page, "img")[i].attrs["src"]) =>
           results.images.image_details[i].src
             = Rfc3986Resolve(results.url, ElementsOf(web.page, "img")[i].attrs["src"])
    /\ (web.url = BaseBlog /\ web.page = ScenarioB) =>
         results.images.image_details[1].src = ExampleCom \o <<"/", "logo.png">>

\* An absolute http or https URL: "http://" or "https://" in front.
IsHttpUrl(u) ==
  /\ Len(u) >= 4
  /\ u[1] \in {"http", "https"}
  /\ u[2] = ":" /\ u[3] = "/" /\ u[4] = "/"

\* The src an <img> of the served page carries, the href an <a> carries.
ImgSrc(i) == ElementsOf(web.page, "img")[i].attrs["src"]

AHref(i) == ElementsOf(web.page, "a")[i].attrs["href"]

\* The hrefs of the records of both link lists.
LinkHrefs ==
  {results.links.internal_links[i].href : i \in 1..Len(results.links.internal_links)}
    \cup {results.links.external_links[i].href : i \in 1..Len(results.links.external_links)}

\* Resolving what the extractors returned once more changes nothing.
ResolvedAgainUnchanged ==
  /\ \A h \in LinkHrefs : urljoin(results.url, h) = h
  /\ \A i \in 1..Len(results.images.image_details) :
       ResolveSrc(impl, results.images.image_details[i].src, results.url)
         = results.images.image_details[i].src

IsCanonicalHttpUrl(u) ==
  /\ IsHttpUrl(u)
  /\ NetlocText(u) # <<>>
  /\ u[Len(u)] \notin {"?", "#", " "}
  /\ \A k \in 1..(Len(u) - 1) : u[k] \in {"?", "#"} => u[k + 1] \notin {"?", "#"}

Metas == ElementsOf(web.page, "meta")

Titles == ElementsOf(web.page, "title")

\* The key of a <meta>: name when the attribute is present, else property.
KeyIfPresent(meta) ==
  IF meta.attrs["name"] # None THEN meta.attrs["name"] ELSE meta.attrs["property"]

\* The key of a <meta>: name when present and not empty, else property when
\* present and not empty, else none.
KeyIfNonEmpty(meta) ==
  IF meta.attrs["name"] \notin {None, <<>>} THEN meta.attrs["name"]
  ELSE IF meta.attrs["property"] \notin {None, <<>>} THEN meta.attrs["property"]
  ELSE None

\* The content of the last <meta> with a key.
LastContent(Key(_), k) ==
  Metas[CHOOSE i \in 1..Len(Metas) :
          Key(Metas[i]) = k /\ \A j \in (i + 1)..Len(Metas) : Key(Metas[j]) # k]
    .attrs["content"]

\* The map the claim describes, as a set of <<key, value>>.
MetaPairs(Key(_)) ==
  {<<Key(Metas[i]), LastContent(Key, Key(Metas[i]))>> :
     i \in {j \in 1..Len(Metas) :
              Key(Metas[j]) # None /\ (Titles = <<>> \/ Key(Metas[j]) # <<"title">>)}}
    \cup (IF Titles = <<>> THEN {} ELSE {<<(<<"title">>), get_text_strip(Titles[1])>>})

\* The map extract_meta_tags returned, as a set of <<key, value>>.
ResultMetaPairs ==
  {<<results.meta_tags[i].key, results.meta_tags[i].value>> :
     i \in 1..Len(results.meta_tags)}

\* C7 as the spec states it: each <meta> contributes its name as key when
\* the attribute is present, else its property, and is skipped with
\* neither; the last value of a key is kept; the <title> text wins.
C7_MetaKeyIsNameIfPresent ==
  Success => ResultMetaPairs = MetaPairs(KeyIfPresent)

\* C7, amended: each <meta> contributes its name as key when the attribute
\* is present and not empty, else its property when that is present and not
\* empty, and is skipped otherwise; for a key that occurs more than once the
\* value of the last element is kept; when a <title> exists the key "title"
\* holds its trimmed text, also when a <meta name="title"> exists.
C7_MetaKeyIsNameIfNonEmpty ==
  Success =>
    /\ ResultMetaPairs = MetaPairs(KeyIfNonEmpty)
    /\ Cardinality(ResultMetaPairs) = Len(results.meta_tags)
    /\ web.page = <<MetaNamedTitle, TitlePadded>> =>
         ResultMetaPairs = {<<(<<"title">>), (<<"My", " ", "Title">>)>>}
    /\ web.page = <<MetaDesc, MetaDescOther>> =>
         ResultMetaPairs = {<<(<<"description">>), (<<"Other">>)>>}

\* A <meta> with an empty name and a property has been extracted.
C7_Witness ==
  /\ Success
  /\ web.page = <<MetaEmptyName, TitlePadded>>
  /\ Len(results.meta_tags) = 2
  /\ results.meta_tags[1].key = <<"og:", "title">>

\* The served page has no <body>.
NoBody == ElementsOf(web.page, "body") = <<>>

\* The stylesheet links and the external scripts of the whole document.
StylesheetLinks ==
  {i \in 1..Len(ElementsOf(web.page, "link")) :
     /\ ElementsOf(web.page, "link")[i].attrs["rel"] # None
     /\ \E k \in 1..Len(ElementsOf(web.page, "link")[i].attrs["rel"]) :
          ElementsOf(web.page, "link")[i].attrs["rel"][k] = "stylesheet"}

ExternalScripts ==
  {i \in 1..Len(ElementsOf(web.page, "script")) :
     ElementsOf(web.page, "script")[i].attrs["src"] # None}

\* C8 as the spec states it: without a <body> all four content metrics of
\* the result are 0.
C8_NoBodyAllMetricsZero ==
  (Success /\ NoBody) =>
    /\ results.word_count = 0
    /\ results.paragraph_count = 0
    /\ results.stylesheet_count = 0
    /\ results.script_count = 0

\* C8, amended: without a <body>, word_count and paragraph_count are 0;
\* stylesheet_count and script_count count the <link rel="stylesheet"> and
\* the <script src> elements of the whole document, with or without a
\* <body>.
C8_NoBodyTextMetricsZero ==
  Success =>
    /\ NoBody => (results.word_count = 0 /\ results.paragraph_count = 0)
    /\ results.stylesheet_count = Cardinality(StylesheetLinks)
    /\ results.script_count = Cardinality(ExternalScripts)

\* A page of a stylesheet link and a paragraph without <body> has been
\* analysed.
C8_Witness ==
  /\ Success
  /\ web.page = <<LinkStylesheet, POneTwo>>
  /\ results.stylesheet_count = 1
  /\ results.paragraph_count = 0

\* The request the first analysis of a process sends for url: the GET with
\* the User-Agent of HEADERS and no cookie.
FirstRequest(url) ==
  [method |-> "GET", url |-> url,
   headers |-> <<[key |-> <<"User-Agent">>, value |-> USER_AGENT]>>,
   cookies |-> {}, timeout |-> 10]

\* C11: no mutable state is carried from one analysis to the next in the
\* same process: the request sent for a URL (headers and cookies of the HTTP
\* client included) and the result of analysing it are those of a first
\* analysis of the process, whatever analyses ran before.
C11_EachAnalysisAsIfFirst ==
  calls # <<>> =>
    /\ requests = <<FirstRequest(input)>>
    /\ Success => results = AnalysisResult(impl, input, web.page)
    /\ FetchFailed => results = [error |-> <<"Could not fetch or parse ">> \o input]

\* The part of C11 the code keeps in every run: the headers sent and the
\* result are those of a first analysis; variant 1 sends no cookie.
C11_ResultAndHeadersAsIfFirst ==
  calls # <<>> =>
    /\ Len(requests) = 1
    /\ requests[1].headers = FirstRequest(input).headers
    /\ impl = 1 => requests = <<FirstRequest(input)>>
    /\ Success => results = AnalysisResult(impl, input, web.page)
    /\ FetchFailed => results = [error |-> <<"Could not fetch or parse ">> \o input]

\* The items of the meta map the report prints: those with a value that is
\* neither missing nor empty.
ShownMeta ==
  SelectSeq(results.meta_tags, LAMBDA item : item.value \notin {None, <<>>})

\* A key with a leading "og:" replaced by "Open Graph ".
PrefixReplaced(key) ==
  IF key # <<>> /\ key[1] = "og:" THEN <<"Open Graph ">> \o Tail(key) ELSE key

\* A key with every "og:" in it replaced by "Open Graph ".
EveryOgReplaced(key) ==
  [i \in 1..Len(key) |-> IF key[i] = "og:" THEN "Open Graph " ELSE key[i]]

\* The report of the last step is that of a successful analysis, and its
\* meta section stands between its two headers.
MetaSectionPrinted ==
  /\ outcome = "ok"
  /\ report[4] = <<"\n--- SEO/Meta Information ---">>
  /\ report[5 + Len(ShownMeta)] = <<"\n--- Headings Summary ---">>

\* C12 as the spec states it: a meta key that starts with "og:" is printed
\* with that prefix replaced by "Open Graph ", every other key is printed
\* exactly as stored.
C12_OgPrefixReplaced ==
  outcome = "ok" =>
    /\ MetaSectionPrinted
    /\ \A i \in 1..Len(ShownMeta) :
         report[4 + i]
           = <<"  ">> \o PrefixReplaced(ShownMeta[i].key) \o <<": ">> \o ShownMeta[i].value

\* C12, amended: in the meta section every item with a non-empty value is
\* printed as "  <key>: <value>" with every occurrence of "og:" in the key
\* replaced by "Open Graph " (og:title with content Hi is printed as
\* "Open Graph title: Hi", blog:tag as "blOpen Graph tag"); a key that does
\* not contain "og:" is printed exactly as stored.
C12_EveryOgReplaced ==
  outcome = "ok" =>
    /\ MetaSectionPrinted
    /\ \A i \in 1..Len(ShownMeta) :
         /\ report[4 + i]
              = <<"  ">> \o EveryOgReplaced(ShownMeta[i].key) \o <<": ">>
                  \o ShownMeta[i].value
         /\ (\A k \in 1..Len(ShownMeta[i].key) : ShownMeta[i].key[k] # "og:") =>
              report[4 + i] = <<"  ">> \o ShownMeta[i].key \o <<": ">> \o ShownMeta[i].value
    /\ web.page = ScenarioE =>
         report[5] = <<"  ", "Open Graph ", "title", ": ", "Hi">>

\* The report of a page with <meta property="blog:tag" content="T"> has
\* been printed.
C12_Witness ==
  /\ outcome = "ok"
  /\ web.page = <<MetaBlogTag>>
  /\ Len(report) > 5
  /\ report[5] = <<"  ", "bl", "Open Graph ", "tag", ": ", "T">>

====
